---- MODULE Spec2Model ----
(***************************************************************************)
(* livehttpx: SubdomainChecker (src/core/checker.py).                      *)
(*                                                                         *)
(* Spec      one call of check_host on one host: the rate-limiter gate and *)
(*           the scheme list, then one step per HTTP request (the outcome  *)
(*           is chosen by the environment) and one step per backoff sleep. *)
(* RateSpec  concurrent calls of _rate_limit_wait, with a clock.           *)
(* UaSpec    concurrent calls of _get_next_user_agent.                     *)
(* PoolSpec  one call of run_checks: the thread pool, the completion loop  *)
(*           and the final sort; RerunSpec adds further calls on the same  *)
(*           checker, PoolFairSpec the scheduling fairness.                *)
(*                                                                         *)
(* The variables marked as history record what has been done so far and do *)
(* not influence the control flow.                                         *)
(***************************************************************************)
EXTENDS Integers, Sequences, FiniteSets, TLC

\* ------------------------------------------------------------------ bounds
MaxRetries == 2
MaxWorkers == 2
MaxCalls == 2
IntervalTicks == 2
MaxElapsed == 6
MaxHosts == 3
MaxFairHosts == 2
MaxReruns == 1

\* ------------------------------------------------------- values and inputs
Statuses == {200, 403}
Host == "a.test"
HTTP == "http://"
HTTPS == "https://"
AllSchemes == {HTTP, HTTPS}
UserAgentPoolSize == 3
BackoffUnitMs == 500

None == [kind |-> "None"]

\* the three ways _get_next_user_agent can be configured
UserAgentModes == {"custom", "random", "round_robin"}

ScanConfigs ==
    [ match_codes      : SUBSET Statuses,
      exclude_codes    : SUBSET Statuses,
      include_codes    : SUBSET Statuses,
      retries          : 0..MaxRetries,
      verify_ssl       : BOOLEAN,
      only_https       : BOOLEAN,
      only_http        : BOOLEAN,
      rate_limit       : BOOLEAN,
      ua_mode          : UserAgentModes ]

VARIABLES
    config,              \* self.config
    pc,                  \* position of the call inside check_host
    schemes,             \* local list `schemes`
    si,                  \* index of the current scheme in `schemes` (1-based)
    attempt,             \* loop variable `attempt`
    result,              \* value returned by check_host (None until it returns a ScanResult)
    current_user_agent,  \* self.current_user_agent
    \* history
    gates,               \* number of times _rate_limit_wait gated the call
    nreq,                \* scheme -> number of verified-path requests issued
    nfb,                 \* scheme -> number of verify=False fallback requests issued
    sleeps,              \* scheme -> sequence of backoff sleeps taken (ms)
    allExcluded,         \* every response received so far carried an excluded status
    allTimeout,          \* every request issued so far timed out
    last,                \* the last request issued and its outcome
    \* _rate_limit_wait called by concurrent workers, with a clock
    now,                 \* time.time(), in ticks
    last_request_time,   \* self.last_request_time
    rate_lock,           \* self.rate_lock: 0 when free, else the worker holding it
    rpc,                 \* worker -> position inside _rate_limit_wait
    current_time,        \* worker -> local `current_time`
    wake,                \* worker -> instant at which its time.sleep ends
    calls,               \* worker -> number of completed _rate_limit_wait calls
    grants,              \* history: the instants stamped into last_request_time
    \* run_checks
    hosts,               \* the list `hosts`
    task,                \* future index -> state of the submitted check_host task
    fut,                 \* future index -> value of the finished future
    seen,                \* history: future index -> what the server answered
    results,             \* self.results
    stats,               \* self.stats
    progress,            \* history: the arguments of the progress_callback calls
    mainpc,              \* position of the caller inside run_checks
    reruns,              \* number of run_checks calls made after the first one
    \* _get_next_user_agent called by concurrent workers
    ua_pc,               \* worker -> position inside _get_next_user_agent
    agent,               \* worker -> index of the pool entry bound to local `agent`
    ua_index,            \* worker -> value of current_user_agent read on line 60
    ua_calls,            \* worker -> number of completed _get_next_user_agent calls
    served               \* history: the pool indices returned, in order of return

rateVars == << now, last_request_time, rate_lock, rpc, current_time, wake,
               calls, grants >>

poolVars == << hosts, task, fut, seen, results, stats, progress, mainpc,
               reruns >>

uaVars == << ua_pc, agent, ua_index, ua_calls, served >>

vars == << config, pc, schemes, si, attempt, result, current_user_agent,
           gates, nreq, nfb, sleeps, allExcluded, allTimeout, last,
           rateVars, poolVars, uaVars >>

hist == << gates, nreq, nfb, sleeps, allExcluded, allTimeout, last >>

NoRequest == [ n |-> 0, scheme |-> "", attempt |-> 0, fallback |-> FALSE,
               verify |-> FALSE, outcome |-> "none", status |-> 0 ]

\* -------------------------------------------------------- pure functions

\* mutant: the include list is not consulted
ShouldIncludeStatus_NoInclude(status) ==
    IF config.exclude_codes # {} /\ status \in config.exclude_codes
    THEN FALSE
    ELSE status \in config.match_codes

\* mutant: the exclude list is not consulted
ShouldIncludeStatus_NoExclude(status) ==
    IF config.include_codes # {} /\ status \notin config.include_codes
    THEN FALSE
    ELSE status \in config.match_codes

\* SubdomainChecker._should_include_status
ShouldIncludeStatus(status) ==
    IF config.exclude_codes # {} /\ status \in config.exclude_codes
    THEN FALSE
    ELSE IF config.include_codes # {} /\ status \notin config.include_codes
         THEN FALSE
         ELSE status \in config.match_codes

\* mutant: https is tried first
BuildSchemes_HttpsFirst ==
    (IF ~config.only_http THEN << HTTPS >> ELSE << >>) \o
    (IF ~config.only_https THEN << HTTP >> ELSE << >>)

\* mutant: only_http does not remove https
BuildSchemes_IgnoreOnlyHttp ==
    (IF ~config.only_https THEN << HTTP >> ELSE << >>) \o << HTTPS >>

\* schemes list built at the top of check_host
BuildSchemes ==
    (IF ~config.only_https THEN << HTTP >> ELSE << >>) \o
    (IF ~config.only_http THEN << HTTPS >> ELSE << >>)

\* scheme.replace('://', '')
SchemeName(scheme) == IF scheme = HTTP THEN "http" ELSE "https"

\* url = scheme + host
Url(scheme, host) == << scheme, host >>

\* mutant: the result does not carry the response's status
FullResult_NoStatus(scheme, status) ==
    [ kind |-> "ScanResult", url |-> Url(scheme, Host), host |-> Host,
      status |-> 0, scheme |-> SchemeName(scheme), enriched |-> TRUE ]

\* ScanResult built on the verified path (full enrichment)
FullResult(scheme, status) ==
    [ kind |-> "ScanResult", url |-> Url(scheme, Host), host |-> Host,
      status |-> status, scheme |-> SchemeName(scheme), enriched |-> TRUE ]

\* ScanResult built in the SSL fallback (reduced detail, scheme='https')
FallbackResult(scheme, status) ==
    [ kind |-> "ScanResult", url |-> Url(scheme, Host), host |-> Host,
      status |-> status, scheme |-> "https", enriched |-> FALSE ]

\* _get_next_user_agent: only the round-robin path advances the index
NextUserAgentIndex ==
    IF config.ua_mode = "round_robin"
    THEN (current_user_agent + 1) % UserAgentPoolSize
    ELSE current_user_agent

CurScheme == schemes[si]

\* mutant: the same pause before every retry
BackoffMs_Flat(a) == BackoffUnitMs

\* time.sleep(0.5 * (attempt + 1)), in milliseconds
BackoffMs(a) == BackoffUnitMs * (a + 1)

\* `if attempt < self.config.retries` in the Timeout handler
TimeoutRetries(a) == a < config.retries

\* mutant: the fallback does not look at the scheme
FallbackAllowed_AnyScheme(scheme) == config.verify_ssl

\* `if self.config.verify_ssl and scheme == "https://"` in the SSLError handler
FallbackAllowed(scheme) == config.verify_ssl /\ scheme = HTTPS

\* the request record of the session.get call being made now
Event(fallback, verify, outcome, status) ==
    [ n |-> last.n + 1, scheme |-> CurScheme, attempt |-> attempt,
      fallback |-> fallback, verify |-> verify,
      outcome |-> outcome, status |-> status ]

\* ------------------------------------------------------------------ Init
Workers == 1..MaxWorkers

\* the clock when the checker is constructed: time.time() is far beyond 1/R
StartTime == IntervalTicks

\* ScanStats()
NewStats ==
    [ total_checked |-> 0, total_found |-> 0, end_time |-> 0,
      status_distribution |-> << >>, tech_distribution |-> << >>,
      cms_distribution |-> << >>, waf_distribution |-> << >> ]

\* rate limiting state set by __init__, no worker inside _rate_limit_wait
RateIdle ==
    /\ now = StartTime
    /\ last_request_time = 0
    /\ rate_lock = 0
    /\ rpc = [w \in Workers |-> "idle"]
    /\ current_time = [w \in Workers |-> 0]
    /\ wake = [w \in Workers |-> 0]
    /\ calls = [w \in Workers |-> 0]
    /\ grants = << >>

\* results and stats set by __init__, run_checks not called yet
PoolIdle ==
    /\ hosts = << >>
    /\ task = << >>
    /\ fut = << >>
    /\ seen = << >>
    /\ results = << >>
    /\ stats = NewStats
    /\ progress = << >>
    /\ mainpc = "idle"
    /\ reruns = 0

\* no worker inside _get_next_user_agent
UaIdle ==
    /\ ua_pc = [w \in Workers |-> "idle"]
    /\ agent = [w \in Workers |-> 0]
    /\ ua_index = [w \in Workers |-> 0]
    /\ ua_calls = [w \in Workers |-> 0]
    /\ served = << >>

\* one check_host call about to start
HostInit ==
    /\ pc = "start"
    /\ schemes = << >>
    /\ si = 1
    /\ attempt = 0
    /\ result = None
    /\ current_user_agent = 0
    /\ gates = 0
    /\ nreq = [s \in AllSchemes |-> 0]
    /\ nfb = [s \in AllSchemes |-> 0]
    /\ sleeps = [s \in AllSchemes |-> << >>]
    /\ allExcluded = TRUE
    /\ allTimeout = TRUE
    /\ last = NoRequest

Init ==
    /\ config \in ScanConfigs
    /\ HostInit
    /\ RateIdle
    /\ PoolIdle
    /\ UaIdle

\* --------------------------------------------------------- control flow

\* `return result`
Return(r) ==
    /\ result' = r
    /\ pc' = "done"
    /\ UNCHANGED << si, attempt >>

\* `continue`, or the end of the loop body: the next iteration of
\* `for attempt in range(retries + 1)`, then of `for scheme in schemes`,
\* then `return None`
NextIteration ==
    IF attempt < config.retries
    THEN /\ attempt' = attempt + 1
         /\ pc' = "request"
         /\ UNCHANGED << si, result >>
    ELSE IF si < Len(schemes)
         THEN /\ si' = si + 1
              /\ attempt' = 0
              /\ pc' = "request"
              /\ UNCHANGED result
         ELSE Return(None)

\* history bookkeeping of a verified-path session.get
CountRequest(outcome, status) ==
    /\ nreq' = [nreq EXCEPT ![CurScheme] = @ + 1]
    /\ last' = Event(FALSE, config.verify_ssl, outcome, status)
    /\ allTimeout' = (allTimeout /\ outcome = "timeout")
    /\ current_user_agent' = NextUserAgentIndex

\* history bookkeeping of the verify=False session.get
CountFallback(outcome, status) ==
    /\ nfb' = [nfb EXCEPT ![CurScheme] = @ + 1]
    /\ last' = Event(TRUE, FALSE, outcome, status)
    /\ allTimeout' = FALSE
    /\ UNCHANGED current_user_agent

\* ---------------------------------------------------------------- actions

\* check_host entry: _rate_limit_wait(), then the scheme list
CheckHostStart ==
    /\ pc = "start"
    /\ gates' = IF config.rate_limit THEN gates + 1 ELSE gates
    /\ schemes' = BuildSchemes
    /\ IF BuildSchemes = << >>
       THEN Return(None)
       ELSE /\ pc' = "request"
            /\ si' = 1
            /\ attempt' = 0
            /\ UNCHANGED result
    /\ UNCHANGED << config, current_user_agent, nreq, nfb, sleeps,
                    allExcluded, allTimeout, last >>
    /\ UNCHANGED << rateVars, poolVars, uaVars >>

\* session.get returns a response with status s
RequestResponse(s) ==
    /\ pc = "request"
    /\ CountRequest("resp", s)
    /\ allExcluded' = (allExcluded /\ s \in config.exclude_codes)
    /\ IF ShouldIncludeStatus(s)
       THEN Return(FullResult(CurScheme, s))
       ELSE NextIteration
    /\ UNCHANGED << config, schemes, gates, nfb, sleeps >>
    /\ UNCHANGED << rateVars, poolVars, uaVars >>

\* session.get raises requests.exceptions.Timeout
RequestTimeout ==
    /\ pc = "request"
    /\ CountRequest("timeout", 0)
    /\ IF TimeoutRetries(attempt)
       THEN /\ pc' = "sleep"
            /\ UNCHANGED << si, attempt, result >>
       ELSE NextIteration
    /\ UNCHANGED << config, schemes, gates, nfb, sleeps, allExcluded >>
    /\ UNCHANGED << rateVars, poolVars, uaVars >>

\* time.sleep(0.5 * (attempt + 1)); continue
BackoffSleep ==
    /\ pc = "sleep"
    /\ sleeps' = [sleeps EXCEPT ![CurScheme] = Append(@, BackoffMs(attempt))]
    /\ NextIteration
    /\ UNCHANGED << config, schemes, current_user_agent, gates, nreq, nfb,
                    allExcluded, allTimeout, last >>
    /\ UNCHANGED << rateVars, poolVars, uaVars >>

\* session.get raises requests.exceptions.SSLError
RequestSSLError ==
    /\ pc = "request"
    /\ CountRequest("ssl", 0)
    /\ IF FallbackAllowed(CurScheme)
       THEN /\ pc' = "fallback"
            /\ UNCHANGED << si, attempt, result >>
       ELSE NextIteration
    /\ UNCHANGED << config, schemes, gates, nfb, sleeps, allExcluded >>
    /\ UNCHANGED << rateVars, poolVars, uaVars >>

\* the verify=False session.get returns a response with status s
FallbackResponse(s) ==
    /\ pc = "fallback"
    /\ CountFallback("resp", s)
    /\ allExcluded' = (allExcluded /\ s \in config.exclude_codes)
    /\ IF ShouldIncludeStatus(s)
       THEN Return(FallbackResult(CurScheme, s))
       ELSE NextIteration
    /\ UNCHANGED << config, schemes, gates, nreq, sleeps >>
    /\ UNCHANGED << rateVars, poolVars, uaVars >>

\* the verify=False session.get raises anything: bare `except: continue`
FallbackError(kind) ==
    /\ pc = "fallback"
    /\ CountFallback(kind, 0)
    /\ NextIteration
    /\ UNCHANGED << config, schemes, gates, nreq, sleeps, allExcluded >>
    /\ UNCHANGED << rateVars, poolVars, uaVars >>

\* mutant: a connection error ends the probing of the host
RequestConnectionError_GiveUp ==
    /\ pc = "request"
    /\ CountRequest("conn", 0)
    /\ Return(None)
    /\ UNCHANGED << config, schemes, gates, nfb, sleeps, allExcluded >>
    /\ UNCHANGED << rateVars, poolVars, uaVars >>

\* session.get raises ConnectionError or another RequestException
RequestConnectionError ==
    /\ pc = "request"
    /\ CountRequest("conn", 0)
    /\ NextIteration
    /\ UNCHANGED << config, schemes, gates, nfb, sleeps, allExcluded >>
    /\ UNCHANGED << rateVars, poolVars, uaVars >>

\* mutant: an exception of no expected class leaves check_host
RequestOtherError_Propagates ==
    /\ pc = "request"
    /\ CountRequest("other", 0)
    /\ pc' = "raised"
    /\ UNCHANGED << si, attempt, result >>
    /\ UNCHANGED << config, schemes, gates, nfb, sleeps, allExcluded >>
    /\ UNCHANGED << rateVars, poolVars, uaVars >>

\* anything else raised inside the try block: `except Exception: continue`
RequestOtherError ==
    /\ pc = "request"
    /\ CountRequest("other", 0)
    /\ NextIteration
    /\ UNCHANGED << config, schemes, gates, nfb, sleeps, allExcluded >>
    /\ UNCHANGED << rateVars, poolVars, uaVars >>

ErrorKinds == {"timeout", "ssl", "conn", "other"}

Next ==
    \/ CheckHostStart
    \/ \E s \in Statuses : RequestResponse(s)
    \/ RequestTimeout
    \/ BackoffSleep
    \/ RequestSSLError
    \/ \E s \in Statuses : FallbackResponse(s)
    \/ \E k \in ErrorKinds : FallbackError(k)
    \/ RequestConnectionError
    \/ RequestOtherError

Spec == Init /\ [][Next]_vars

\* ============================================== _rate_limit_wait, timed

hostVars == << pc, schemes, si, attempt, result, current_user_agent, gates,
               nreq, nfb, sleeps, allExcluded, allTimeout, last >>

\* ScanConfig() defaults, restricted to the modelled fields and statuses
DefaultConfig ==
    [ match_codes |-> Statuses, exclude_codes |-> {}, include_codes |-> {},
      retries |-> 1, verify_ssl |-> TRUE, only_https |-> FALSE,
      only_http |-> FALSE, rate_limit |-> FALSE, ua_mode |-> "random" ]

\* 1.0 / self.config.rate_limit, in ticks
RateInterval == IntervalTicks

RateInit ==
    /\ config \in { [DefaultConfig EXCEPT !.rate_limit = r] : r \in BOOLEAN }
    /\ HostInit
    /\ RateIdle
    /\ PoolIdle
    /\ UaIdle

\* a worker enters _rate_limit_wait; without a rate limit it returns at once
RateCall(w) ==
    /\ rpc[w] = "idle"
    /\ calls[w] < MaxCalls
    /\ IF ~config.rate_limit
       THEN /\ calls' = [calls EXCEPT ![w] = @ + 1]
            /\ UNCHANGED rpc
       ELSE /\ rpc' = [rpc EXCEPT ![w] = "lock"]
            /\ UNCHANGED calls
    /\ UNCHANGED << config, hostVars, poolVars, uaVars, now, last_request_time,
                    rate_lock, current_time, wake, grants >>

\* `with self.rate_lock:` the lock is taken when it is free
RateAcquire(w) ==
    /\ rpc[w] = "lock"
    /\ rate_lock = 0
    /\ rate_lock' = w
    /\ rpc' = [rpc EXCEPT ![w] = "read"]
    /\ UNCHANGED << config, hostVars, poolVars, uaVars, now, last_request_time,
                    current_time, wake, calls, grants >>

\* current_time = time.time()
RateRead(w) ==
    /\ rpc[w] = "read"
    /\ current_time' = [current_time EXCEPT ![w] = now]
    /\ rpc' = [rpc EXCEPT ![w] = "decide"]
    /\ UNCHANGED << config, hostVars, poolVars, uaVars, now, last_request_time,
                    rate_lock, wake, calls, grants >>

\* mutant: the wait is skipped
RateDecide_NoSleep(w) ==
    /\ rpc[w] = "decide"
    /\ rpc' = [rpc EXCEPT ![w] = "stamp"]
    /\ UNCHANGED << config, hostVars, poolVars, uaVars, now, last_request_time,
                    rate_lock, current_time, wake, calls, grants >>

\* time_since_last = current_time - last_request_time; time.sleep(...) when
\* it is below the interval
RateDecide(w) ==
    /\ rpc[w] = "decide"
    /\ LET time_since_last == current_time[w] - last_request_time
       IN  IF time_since_last < RateInterval
           THEN /\ wake' = [wake EXCEPT ![w] = now + (RateInterval - time_since_last)]
                /\ rpc' = [rpc EXCEPT ![w] = "sleeping"]
           ELSE /\ rpc' = [rpc EXCEPT ![w] = "stamp"]
                /\ UNCHANGED wake
    /\ UNCHANGED << config, hostVars, poolVars, uaVars, now, last_request_time,
                    rate_lock, current_time, calls, grants >>

\* time.sleep returns once the requested time has elapsed
RateWake(w) ==
    /\ rpc[w] = "sleeping"
    /\ now >= wake[w]
    /\ rpc' = [rpc EXCEPT ![w] = "stamp"]
    /\ UNCHANGED << config, hostVars, poolVars, uaVars, now, last_request_time,
                    rate_lock, current_time, wake, calls, grants >>

\* self.last_request_time = time.time(); the lock is released
RateStamp(w) ==
    /\ rpc[w] = "stamp"
    /\ last_request_time' = now
    /\ grants' = Append(grants, now)
    /\ rate_lock' = 0
    /\ rpc' = [rpc EXCEPT ![w] = "idle"]
    /\ calls' = [calls EXCEPT ![w] = @ + 1]
    /\ UNCHANGED << config, hostVars, poolVars, uaVars, now, current_time, wake >>

\* the clock advances
Tick ==
    /\ now < StartTime + MaxElapsed
    /\ now' = now + 1
    /\ UNCHANGED << config, hostVars, poolVars, uaVars, last_request_time, rate_lock,
                    rpc, current_time, wake, calls, grants >>

RateNext ==
    \/ \E w \in Workers : RateCall(w)
    \/ \E w \in Workers : RateAcquire(w)
    \/ \E w \in Workers : RateRead(w)
    \/ \E w \in Workers : RateDecide(w)
    \/ \E w \in Workers : RateWake(w)
    \/ \E w \in Workers : RateStamp(w)
    \/ Tick

RateSpec == RateInit /\ [][RateNext]_vars

\* ================================== _get_next_user_agent, concurrent workers

callVars == << pc, schemes, si, attempt, result, gates, nreq, nfb, sleeps,
              allExcluded, allTimeout, last >>

UaInit ==
    /\ config \in { [DefaultConfig EXCEPT !.ua_mode = m] : m \in UserAgentModes }
    /\ HostInit
    /\ RateIdle
    /\ PoolIdle
    /\ UaIdle

\* the value returned without the pool: config.custom_user_agent, or the
\* value of get_random_user_agent()
DirectAgent ==
    IF config.ua_mode = "custom" THEN "custom_user_agent" ELSE "random"

\* mutant: the custom and the random user agent are ignored
UaCall_AlwaysRotates(w) ==
    /\ ua_pc[w] = "idle"
    /\ ua_calls[w] < MaxCalls
    /\ ua_pc' = [ua_pc EXCEPT ![w] = "index"]
    /\ UNCHANGED << ua_calls, served >>
    /\ UNCHANGED << config, callVars, current_user_agent, rateVars, poolVars,
                    agent, ua_index >>

\* a worker enters _get_next_user_agent; with a custom or a random user agent
\* it returns without touching the index
UaCall(w) ==
    /\ ua_pc[w] = "idle"
    /\ ua_calls[w] < MaxCalls
    /\ IF config.ua_mode = "round_robin"
       THEN /\ ua_pc' = [ua_pc EXCEPT ![w] = "index"]
            /\ UNCHANGED << ua_calls, served >>
       ELSE /\ ua_calls' = [ua_calls EXCEPT ![w] = @ + 1]
            /\ served' = Append(served, DirectAgent)
            /\ UNCHANGED ua_pc
    /\ UNCHANGED << config, callVars, current_user_agent, rateVars, poolVars,
                    agent, ua_index >>

\* agent = self.user_agents[self.current_user_agent]
UaIndex(w) ==
    /\ ua_pc[w] = "index"
    /\ agent' = [agent EXCEPT ![w] = current_user_agent]
    /\ ua_pc' = [ua_pc EXCEPT ![w] = "load"]
    /\ UNCHANGED << config, callVars, current_user_agent, rateVars, poolVars,
                    ua_index, ua_calls, served >>

\* the right-hand side of line 60 reads self.current_user_agent
UaLoad(w) ==
    /\ ua_pc[w] = "load"
    /\ ua_index' = [ua_index EXCEPT ![w] = current_user_agent]
    /\ ua_pc' = [ua_pc EXCEPT ![w] = "store"]
    /\ UNCHANGED << config, callVars, current_user_agent, rateVars, poolVars,
                    agent, ua_calls, served >>

\* mutant: the index is advanced without the modulo
UaStore_NoModulo(w) ==
    /\ ua_pc[w] = "store"
    /\ current_user_agent' = ua_index[w] + 1
    /\ served' = Append(served, agent[w])
    /\ ua_calls' = [ua_calls EXCEPT ![w] = @ + 1]
    /\ ua_pc' = [ua_pc EXCEPT ![w] = "idle"]
    /\ UNCHANGED << config, callVars, rateVars, poolVars, agent, ua_index >>

\* self.current_user_agent = (... + 1) % len(self.user_agents); return agent
UaStore(w) ==
    /\ ua_pc[w] = "store"
    /\ current_user_agent' = (ua_index[w] + 1) % UserAgentPoolSize
    /\ served' = Append(served, agent[w])
    /\ ua_calls' = [ua_calls EXCEPT ![w] = @ + 1]
    /\ ua_pc' = [ua_pc EXCEPT ![w] = "idle"]
    /\ UNCHANGED << config, callVars, rateVars, poolVars, agent, ua_index >>

UaNext ==
    \/ \E w \in Workers : UaCall(w)
    \/ \E w \in Workers : UaIndex(w)
    \/ \E w \in Workers : UaLoad(w)
    \/ \E w \in Workers : UaStore(w)

UaSpec == UaInit /\ [][UaNext]_vars

\* ============================================================ run_checks

IsResult(r) == r.kind = "ScanResult"

\* candidate hosts, in the order the caller passes them
HostPool == << "cc.test", "a.test", "b.test", "dd.test", "e.test" >>

\* len(host)
HostLen(h) == IF h \in {"cc.test", "dd.test"} THEN 7 ELSE 6

\* position of a host name in the ascending order of Python strings
HostRank(h) ==
    CASE h = "a.test" -> 1
      [] h = "b.test" -> 2
      [] h = "cc.test" -> 3
      [] h = "dd.test" -> 4
      [] h = "e.test" -> 5
      [] OTHER -> 6

\* the final URL of a redirect that several hosts share
SharedUrl == Url(HTTPS, "www.test")

\* str comparison u <= v of two URLs: "http://" sorts before "https://"
UrlLE(u, v) ==
    \/ u[1] = HTTP /\ v[1] = HTTPS
    \/ u[1] = v[1] /\ HostRank(u[2]) <= HostRank(v[2])

Failure == [ kind |-> "err" ]

Response(status, url, technologies, cms, waf) ==
    [ kind |-> "resp", status |-> status, url |-> url,
      technologies |-> technologies, cms |-> cms, waf |-> waf ]

\* what a server answers on each scheme, for a host h
Behaviours(h) ==
    { [ name |-> "dead",
        http |-> Response(404, Url(HTTP, h), << >>, "", ""),
        https |-> Failure ],
      [ name |-> "plain200",
        http |-> Response(200, Url(HTTP, h), << "Nginx", "PHP" >>, "WordPress", ""),
        https |-> Failure ],
      [ name |-> "https403",
        http |-> Failure,
        https |-> Response(403, Url(HTTPS, h), << "Nginx" >>, "", "") ],
      [ name |-> "shared200",
        http |-> Response(200, SharedUrl, << >>, "", "Cloudflare"),
        https |-> Failure ] }

BehaviourNames == { "dead", "plain200", "https403", "shared200" }

\* the answer of the server on one scheme
Answer(b, scheme) == IF scheme = HTTP THEN b.http ELSE b.https

\* ScanResult built by check_host from a response, with the detections that
\* the config enables
ScanResultOf(h, scheme, resp) ==
    [ kind |-> "ScanResult",
      url |-> IF config.follow_redirects THEN resp.url ELSE Url(scheme, h),
      host |-> h,
      status |-> resp.status,
      scheme |-> SchemeName(scheme),
      technologies |-> IF config.tech_detection THEN resp.technologies ELSE << >>,
      cms |-> IF config.detect_cms THEN resp.cms ELSE "",
      waf |-> IF config.detect_waf THEN resp.waf ELSE "",
      enriched |-> TRUE ]

\* check_host against a server whose answer is fixed per scheme: the schemes
\* in order, the first response that passes the status filter wins
RECURSIVE ProbeSchemes(_, _, _)
ProbeSchemes(h, b, todo) ==
    IF todo = << >>
    THEN None
    ELSE LET a == Answer(b, Head(todo))
         IN  IF a.kind = "resp" /\ ShouldIncludeStatus(a.status)
             THEN ScanResultOf(h, Head(todo), a)
             ELSE ProbeSchemes(h, b, Tail(todo))

\* mutant: only the first scheme is probed
CheckHostResult_FirstSchemeOnly(h, b) ==
    ProbeSchemes(h, b, SubSeq(BuildSchemes, 1, 1))

CheckHostResult(h, b) == ProbeSchemes(h, b, BuildSchemes)

\* dict.get(k, 0)
DictGet(d, k) == IF k \in DOMAIN d THEN d[k] ELSE 0

\* d[k] = d.get(k, 0) + 1
DictInc(d, k) ==
    [ x \in (DOMAIN d) \cup {k} |-> IF x = k THEN DictGet(d, k) + 1 ELSE d[x] ]

\* for tech in result.technologies: tech_distribution[tech] += 1
RECURSIVE CountTechs(_, _)
CountTechs(d, techs) ==
    IF techs = << >> THEN d
    ELSE CountTechs(DictInc(d, Head(techs)), Tail(techs))

\* mutant: the key is the status alone
KeyLE_StatusOnly(a, b) == a.status <= b.status

\* sort key (x.status, x.url): a sorts no later than b
KeyLE(a, b) ==
    \/ a.status < b.status
    \/ a.status = b.status /\ UrlLE(a.url, b.url)

\* mutant: x is placed in front of the elements with an equal key
RECURSIVE InsertSorted_BeforeEqual(_, _)
InsertSorted_BeforeEqual(sorted, x) ==
    IF sorted = << >>
    THEN << x >>
    ELSE IF KeyLE(sorted[Len(sorted)], x) /\ ~KeyLE(x, sorted[Len(sorted)])
         THEN Append(sorted, x)
         ELSE Append(InsertSorted_BeforeEqual(SubSeq(sorted, 1, Len(sorted) - 1), x),
                     sorted[Len(sorted)])

\* x placed behind every element whose key is not greater (stable)
RECURSIVE InsertSorted(_, _)
InsertSorted(sorted, x) ==
    IF sorted = << >>
    THEN << x >>
    ELSE IF KeyLE(sorted[Len(sorted)], x)
         THEN Append(sorted, x)
         ELSE Append(InsertSorted(SubSeq(sorted, 1, Len(sorted) - 1), x),
                     sorted[Len(sorted)])

\* self.results.sort(key=lambda x: (x.status, x.url)): list.sort is stable
RECURSIVE SortResults(_)
SortResults(seq) ==
    IF seq = << >>
    THEN << >>
    ELSE InsertSorted(SortResults(SubSeq(seq, 1, Len(seq) - 1)), seq[Len(seq)])

\* mutant: h is placed in front of the hosts of the same length
RECURSIVE InsertByLen_BeforeEqual(_, _)
InsertByLen_BeforeEqual(sorted, h) ==
    IF sorted = << >>
    THEN << h >>
    ELSE IF HostLen(sorted[Len(sorted)]) < HostLen(h)
         THEN Append(sorted, h)
         ELSE Append(InsertByLen_BeforeEqual(SubSeq(sorted, 1, Len(sorted) - 1), h),
                     sorted[Len(sorted)])

\* h placed behind every host that is not longer (stable)
RECURSIVE InsertByLen(_, _)
InsertByLen(sorted, h) ==
    IF sorted = << >>
    THEN << h >>
    ELSE IF HostLen(sorted[Len(sorted)]) <= HostLen(h)
         THEN Append(sorted, h)
         ELSE Append(InsertByLen(SubSeq(sorted, 1, Len(sorted) - 1), h),
                     sorted[Len(sorted)])

\* hosts.sort(key=lambda x: len(x))
RECURSIVE SortByLen(_)
SortByLen(seq) ==
    IF seq = << >>
    THEN << >>
    ELSE InsertByLen(SortByLen(SubSeq(seq, 1, Len(seq) - 1)), seq[Len(seq)])

\* the host lists passed to run_checks
InputLists == { SubSeq(HostPool, 1, n) : n \in 0..MaxHosts }

\* configurations of a scan: defaults, detections on
PoolConfigs ==
    { [DefaultConfig EXCEPT !.rate_limit = r] @@
      [ max_workers |-> m, follow_redirects |-> TRUE, tech_detection |-> TRUE,
        detect_cms |-> TRUE, detect_waf |-> TRUE ] :
      r \in BOOLEAN, m \in 1..MaxWorkers }

PoolInit ==
    /\ config \in PoolConfigs
    /\ HostInit
    /\ RateIdle
    /\ UaIdle
    /\ hosts \in InputLists
    /\ task = << >>
    /\ fut = << >>
    /\ seen = << >>
    /\ results = << >>
    /\ stats = NewStats
    /\ progress = << >>
    /\ mainpc = "idle"
    /\ reruns = 0

Futures == 1..Len(task)

\* future.done()
Done(i) == task[i] \in {"finished", "recorded"}

\* tasks that a pool thread is executing
Executing == { i \in Futures : task[i] \in {"gate", "ingate", "probe"} }

\* sum(1 for f in future_to_host if not f.done())
NotDone == Cardinality({ i \in Futures : ~Done(i) })

poolRest == << pc, schemes, si, attempt, result, current_user_agent, nreq, nfb,
               sleeps, allExcluded, allTimeout, last, now, rpc, current_time,
               wake, calls, grants >>

\* run_checks up to the end of the submit loop
RunChecksStart ==
    /\ mainpc = "idle"
    /\ stats' = [stats EXCEPT !.total_checked = Len(hosts)]
    /\ hosts' = SortByLen(hosts)
    /\ task' = [i \in 1..Len(hosts) |-> "queued"]
    /\ fut' = [i \in 1..Len(hosts) |-> None]
    /\ seen' = [i \in 1..Len(hosts) |-> "none"]
    /\ mainpc' = "collect"
    /\ UNCHANGED << config, poolRest, uaVars, reruns, gates, last_request_time, rate_lock,
                    results, progress >>

\* mutant: a thread is started for every submitted task
CanStart_Unbounded(i) ==
    /\ task[i] = "queued"
    /\ \A j \in 1..(i - 1) : task[j] # "queued"

\* ThreadPoolExecutor(max_workers): the oldest queued task is taken when fewer
\* than max_workers tasks are executing
CanStart(i) ==
    /\ task[i] = "queued"
    /\ \A j \in 1..(i - 1) : task[j] # "queued"
    /\ Cardinality(Executing) < config.max_workers

\* a pool thread starts check_host(host) and reaches the rate limiter
TaskStart(i) ==
    /\ CanStart(i)
    /\ task' = [task EXCEPT ![i] = IF config.rate_limit THEN "gate" ELSE "probe"]
    /\ UNCHANGED << config, poolRest, uaVars, reruns, gates, last_request_time, rate_lock,
                    hosts, fut, seen, results, stats, progress, mainpc >>

\* _rate_limit_wait: `with self.rate_lock:`
TaskGateEnter(i) ==
    /\ task[i] = "gate"
    /\ rate_lock = 0
    /\ rate_lock' = i
    /\ task' = [task EXCEPT ![i] = "ingate"]
    /\ UNCHANGED << config, poolRest, uaVars, reruns, gates, last_request_time,
                    hosts, fut, seen, results, stats, progress, mainpc >>

\* mutant: the lock is not released
TaskGateLeave_KeepLock(i) ==
    /\ task[i] = "ingate"
    /\ last_request_time' = now
    /\ gates' = gates + 1
    /\ task' = [task EXCEPT ![i] = "probe"]
    /\ UNCHANGED << config, poolRest, uaVars, reruns, rate_lock,
                    hosts, fut, seen, results, stats, progress, mainpc >>

\* _rate_limit_wait: the stamp, and the lock is released
TaskGateLeave(i) ==
    /\ task[i] = "ingate"
    /\ last_request_time' = now
    /\ rate_lock' = 0
    /\ gates' = gates + 1
    /\ task' = [task EXCEPT ![i] = "probe"]
    /\ UNCHANGED << config, poolRest, uaVars, reruns,
                    hosts, fut, seen, results, stats, progress, mainpc >>

\* mutant: the worker thread aggregates its own result
TaskProbe_Aggregates(i, b) ==
    /\ task[i] = "probe"
    /\ fut' = [fut EXCEPT ![i] = CheckHostResult(hosts[i], b)]
    /\ seen' = [seen EXCEPT ![i] = b.name]
    /\ task' = [task EXCEPT ![i] = "finished"]
    /\ IF IsResult(CheckHostResult(hosts[i], b))
       THEN /\ results' = Append(results, CheckHostResult(hosts[i], b))
            /\ stats' = [stats EXCEPT !.total_found = @ + 1]
       ELSE UNCHANGED << results, stats >>
    /\ UNCHANGED << config, poolRest, uaVars, reruns, gates, last_request_time, rate_lock,
                    hosts, progress, mainpc >>

\* the rest of check_host: the future finishes with its return value
TaskProbe(i, b) ==
    /\ task[i] = "probe"
    /\ fut' = [fut EXCEPT ![i] = CheckHostResult(hosts[i], b)]
    /\ seen' = [seen EXCEPT ![i] = b.name]
    /\ task' = [task EXCEPT ![i] = "finished"]
    /\ UNCHANGED << config, poolRest, uaVars, reruns, gates, last_request_time, rate_lock,
                    hosts, results, stats, progress, mainpc >>

\* mutant: cms and waf are counted even when empty
StatsWith_CountEmpty(st, r) ==
    [ st EXCEPT
        !.total_found = @ + 1,
        !.status_distribution = DictInc(@, r.status),
        !.tech_distribution = CountTechs(@, r.technologies),
        !.cms_distribution = DictInc(@, r.cms),
        !.waf_distribution = DictInc(@, r.waf) ]

\* the statistics after a ScanResult r has been counted
StatsWith(st, r) ==
    [ st EXCEPT
        !.total_found = @ + 1,
        !.status_distribution = DictInc(@, r.status),
        !.tech_distribution = CountTechs(@, r.technologies),
        !.cms_distribution = IF r.cms # "" THEN DictInc(@, r.cms) ELSE @,
        !.waf_distribution = IF r.waf # "" THEN DictInc(@, r.waf) ELSE @ ]

\* the first argument of progress_callback
CheckedArg(res, notdone) == Len(res) + notdone

\* one iteration of the as_completed loop: the outcome of a finished future
\* is aggregated, then progress_callback is called
Record(i) ==
    /\ mainpc = "collect"
    /\ task[i] = "finished"
    /\ task' = [task EXCEPT ![i] = "recorded"]
    /\ IF IsResult(fut[i])
       THEN /\ results' = Append(results, fut[i])
            /\ stats' = StatsWith(stats, fut[i])
       ELSE UNCHANGED << results, stats >>
    /\ progress' = Append(progress,
                          [ checked |-> CheckedArg(results', NotDone),
                            found |-> stats'.total_found ])
    /\ UNCHANGED << config, poolRest, uaVars, reruns, gates, last_request_time, rate_lock,
                    hosts, fut, seen, mainpc >>

\* after the loop: the executor is shut down, the results are sorted,
\* end_time is stamped and the list is returned
Finalize ==
    /\ mainpc = "collect"
    /\ \A i \in Futures : task[i] = "recorded"
    /\ results' = SortResults(results)
    /\ stats' = [stats EXCEPT !.end_time = now]
    /\ mainpc' = "returned"
    /\ UNCHANGED << config, poolRest, uaVars, reruns, gates, last_request_time, rate_lock,
                    hosts, task, fut, seen, progress >>

PoolNext ==
    \/ RunChecksStart
    \/ \E i \in Futures : TaskStart(i)
    \/ \E i \in Futures : TaskGateEnter(i)
    \/ \E i \in Futures : TaskGateLeave(i)
    \/ \E i \in Futures : \E b \in Behaviours(hosts[i]) : TaskProbe(i, b)
    \/ \E i \in Futures : Record(i)
    \/ Finalize

PoolSpec == PoolInit /\ [][PoolNext]_vars

\* the host lists of the runs that are followed by another run
RerunLists == { SubSeq(HostPool, 1, n) : n \in 0..MaxFairHosts }

\* run_checks called again on the same checker, with the list l, up to the
\* end of the submit loop: results and the counters of stats are kept
RunChecksAgain(l) ==
    /\ mainpc = "returned"
    /\ reruns < MaxReruns
    /\ reruns' = reruns + 1
    /\ stats' = [stats EXCEPT !.total_checked = Len(l)]
    /\ hosts' = SortByLen(l)
    /\ task' = [i \in 1..Len(l) |-> "queued"]
    /\ fut' = [i \in 1..Len(l) |-> None]
    /\ seen' = [i \in 1..Len(l) |-> "none"]
    /\ progress' = << >>
    /\ mainpc' = "collect"
    /\ UNCHANGED << config, poolRest, uaVars, gates, last_request_time,
                    rate_lock, results >>

RerunInit ==
    /\ PoolInit
    /\ hosts \in RerunLists

RerunNext ==
    \/ PoolNext
    \/ \E l \in RerunLists : RunChecksAgain(l)

\* several run_checks calls, one after the other, on one checker
RerunSpec == RerunInit /\ [][RerunNext]_vars

\* the runs checked for termination: the shorter host lists
PoolFairInit ==
    /\ PoolInit
    /\ Len(hosts) <= MaxFairHosts

\* every thread and the caller keep running
PoolFairSpec == PoolFairInit /\ [][PoolNext]_vars /\ WF_vars(PoolNext)

\* =================================================================== claims

\* the status filter as the specification words it
FilterLaw(s) ==
    /\ s \notin config.exclude_codes
    /\ (config.include_codes = {} \/ s \in config.include_codes)
    /\ s \in config.match_codes

\* the last request was answered with a response (on either path)
LastIsResponse == last.outcome = "resp"

\* C1: for every status and every config, _should_include_status(s) is true
\* exactly when s is not excluded, is included when an include list is given,
\* and is in match_codes; exclusion wins over inclusion and both win over the
\* match list; check_host turns a response into a result exactly by that law.
C1_StatusFilter ==
    /\ \A s \in Statuses :
        /\ ShouldIncludeStatus(s) <=> FilterLaw(s)
        /\ s \in config.exclude_codes => ~ShouldIncludeStatus(s)
        /\ (config.include_codes # {} /\ s \notin config.include_codes)
              => ~ShouldIncludeStatus(s)
    /\ LastIsResponse => (IsResult(result) <=> FilterLaw(last.status))

C1_Witness ==
    /\ pc = "done"
    /\ LastIsResponse
    /\ last.status \in config.exclude_codes
    /\ last.status \in config.include_codes
    /\ last.status \in config.match_codes
    /\ ~IsResult(result)

\* C2: a response whose status is in match_codes, not in exclude_codes and in
\* include_codes when that list is non-empty makes check_host return a
\* ScanResult with that status and the probed host.
C2_MatchingResponseReturned ==
    (LastIsResponse /\ FilterLaw(last.status))
        => /\ pc = "done"
           /\ IsResult(result)
           /\ result.status = last.status
           /\ result.host = Host

C2_Witness ==
    /\ pc = "done"
    /\ IsResult(result)
    /\ ~last.fallback
    /\ last.attempt >= 1
    /\ config.include_codes # {}
    /\ result.status = 403

\* C3: a host whose every response carries an excluded status gets None, even
\* when the status is also matched and included; no result ever carries an
\* excluded status.
C3_ExcludedNeverReturned ==
    /\ (pc = "done" /\ allExcluded) => ~IsResult(result)
    /\ IsResult(result) => result.status \notin config.exclude_codes

C3_Witness ==
    /\ pc = "done"
    /\ allExcluded
    /\ ~IsResult(result)
    /\ last.fallback
    /\ LastIsResponse
    /\ last.status \in config.match_codes
    /\ last.status \in config.include_codes
    /\ nreq[HTTP] >= 1

\* the last request was a verified-path request that timed out
LastTimedOut == last.outcome = "timeout" /\ ~last.fallback

\* the backoff sleeps of a scheme whose first k attempts timed out
LinearBackoff(k) == [i \in 1..k |-> 500 * i]

NewRequest == last'.n = last.n + 1

\* the last request was a verified-path request that failed with a
\* ConnectionError/RequestException or with another exception
LastHardFailed == last.outcome \in {"conn", "other"} /\ ~last.fallback

\* C5: after a ConnectionError or another non-timeout, non-SSL exception the
\* scheme is abandoned: there is no backoff sleep and the next request, if
\* any, goes to another scheme.
C5_HardFailAbandonsScheme ==
    [][ /\ LastHardFailed => pc # "sleep"
        /\ (LastHardFailed /\ NewRequest) => last'.scheme # last.scheme ]_vars

\* the last request was the unverified fallback and it gave no result
LastFallbackFailed ==
    /\ last.fallback
    /\ ~(last.outcome = "resp" /\ ShouldIncludeStatus(last.status))

\* C6: after an SSL error on https whose unverified fallback failed or did not
\* match, no further https request is made for the host.
C6_SslFailureAbandonsHttps ==
    [][ (LastFallbackFailed /\ NewRequest) => last'.scheme # HTTPS ]_vars

\* the last request was a verified-path request that raised an SSL error
LastSslError == last.outcome = "ssl" /\ ~last.fallback

\* C7: an SSL error triggers one request with verification disabled exactly
\* when the scheme is https and verify_ssl is true, and none on http or with
\* verify_ssl false; the fallback is never itself followed by a fallback; its
\* response gives a result only if it passes the status filter.
C7_SingleSslFallback ==
    /\ LastSslError =>
          (pc = "fallback" <=> (last.scheme = HTTPS /\ config.verify_ssl))
    /\ pc = "fallback" =>
          /\ LastSslError
          /\ CurScheme = last.scheme
          /\ attempt = last.attempt
          /\ nfb[HTTPS] < nreq[HTTPS]
    /\ last.fallback =>
          /\ ~last.verify
          /\ last.scheme = HTTPS
          /\ config.verify_ssl
          /\ pc # "fallback"
          /\ IsResult(result) <=>
                (last.outcome = "resp" /\ FilterLaw(last.status))
          /\ IsResult(result) => result.status = last.status
    /\ nfb[HTTP] = 0
    /\ ~config.verify_ssl => nfb[HTTPS] = 0
    /\ nfb[HTTPS] <= nreq[HTTPS]

C7_Witness ==
    /\ pc = "done"
    /\ last.fallback
    /\ IsResult(result)
    /\ nfb[HTTPS] = 2
    /\ nreq[HTTPS] = 2

\* C8: http is tried before https, and the first response that passes the
\* filter ends the probing: it is the last request of the call, the result
\* carries its scheme, and a result on http means no https request was made.
C8_FirstMatchWins ==
    /\ last.scheme = HTTP => (nreq[HTTPS] = 0 /\ nfb[HTTPS] = 0)
    /\ IsResult(result) =>
          /\ pc = "done"
          /\ LastIsResponse
          /\ result.status = last.status
          /\ result.scheme = SchemeName(last.scheme)
          /\ last.n = nreq[HTTP] + nreq[HTTPS] + nfb[HTTP] + nfb[HTTPS]
    /\ (IsResult(result) /\ result.scheme = "http") =>
          (nreq[HTTPS] = 0 /\ nfb[HTTPS] = 0)

C8_Witness ==
    /\ pc = "done"
    /\ IsResult(result)
    /\ result.scheme = "http"
    /\ ~config.only_http
    /\ last.attempt = 1
    /\ config.retries = 2

\* the http scheme has been exhausted without a result
HttpFailed ==
    /\ nreq[HTTP] = config.retries + 1
    /\ ~(IsResult(result) /\ result.scheme = "http")
    /\ pc # "sleep"

\* C9: with only_https and only_http both false, failure of every http attempt
\* never prevents https from being tried, and a passing https response gives a
\* result whose scheme is 'https'.
C9_HttpsAfterHttpFailure ==
    (~config.only_https /\ ~config.only_http) =>
        /\ (HttpFailed /\ last.scheme = HTTP) =>
              (pc = "request" /\ CurScheme = HTTPS /\ attempt = 0)
        /\ (pc = "done" /\ ~(IsResult(result) /\ result.scheme = "http")) =>
              nreq[HTTPS] >= 1
        /\ (LastIsResponse /\ last.scheme = HTTPS /\ FilterLaw(last.status)) =>
              (IsResult(result) /\ result.scheme = "https")

C9_Witness ==
    /\ ~config.only_https
    /\ ~config.only_http
    /\ config.retries >= 1
    /\ nreq[HTTP] = config.retries + 1
    /\ sleeps[HTTP] # << >>
    /\ pc = "done"
    /\ IsResult(result)
    /\ result.scheme = "https"
    /\ ~last.fallback

\* C10: with only_https no http:// request is ever issued and every result
\* has scheme 'https'; with only_http no https:// request, fallback included,
\* is ever issued and every result has scheme 'http'.
C10_SchemeRestriction ==
    /\ config.only_https =>
          /\ nreq[HTTP] = 0
          /\ nfb[HTTP] = 0
          /\ last.scheme # HTTP
          /\ IsResult(result) => result.scheme = "https"
    /\ config.only_http =>
          /\ nreq[HTTPS] = 0
          /\ nfb[HTTPS] = 0
          /\ last.scheme # HTTPS
          /\ IsResult(result) => result.scheme = "http"

C10_Witness ==
    /\ config.only_http
    /\ ~config.only_https
    /\ config.verify_ssl
    /\ pc = "done"
    /\ LastSslError
    /\ nreq[HTTP] = config.retries + 1

\* C11: with only_https and only_http both true check_host issues no request,
\* does not wait on the rate limiter, takes no backoff sleep and returns None.
C11_NoSchemeNoWait ==
    (config.only_https /\ config.only_http) =>
        /\ last.n = 0
        /\ nreq[HTTP] + nreq[HTTPS] + nfb[HTTP] + nfb[HTTPS] = 0
        /\ gates = 0
        /\ pc # "sleep"
        /\ sleeps[HTTP] = << >> /\ sleeps[HTTPS] = << >>
        /\ ~IsResult(result)

\* C12: with a rate limit configured every request (every scheme, every retry
\* attempt) has passed the rate limiter before it is sent: the limiter has
\* gated the call at least once per request issued.
C12_EveryRequestGated ==
    config.rate_limit => gates >= nreq[HTTP] + nreq[HTTPS]

\* C13: with a rate limit configured, under every interleaving of workers in
\* _rate_limit_wait, two successive grants (stamps of last_request_time) are at
\* least 1/R apart whichever workers they belong to, and only the worker that
\* holds the lock is between reading the clock and stamping.
C13_GrantsSpaced ==
    /\ \A i \in 1..(Len(grants) - 1) : grants[i + 1] - grants[i] >= IntervalTicks
    /\ Len(grants) >= 1 => last_request_time = grants[Len(grants)]
    /\ \A w \in Workers :
          rpc[w] \in {"read", "decide", "sleeping", "stamp"} => rate_lock = w

C13_Witness ==
    /\ Len(grants) = 3
    /\ calls[1] >= 1
    /\ calls[2] >= 1
    /\ grants[2] - grants[1] = IntervalTicks
    /\ \E w \in Workers : rpc[w] = "lock"

\* C14: at every moment at most max_workers check_host tasks are executing;
\* the other hosts wait in the queue in submission order; every host of the
\* list is executed exactly once.
C14_BoundedPool ==
    /\ Cardinality(Executing) <= config.max_workers
    /\ \A i \in Futures : \A j \in Futures :
          (i < j /\ task[i] = "queued") => task[j] = "queued"
    /\ mainpc # "idle" => Len(task) = Len(hosts)
    /\ \A i \in Futures : Done(i) <=> seen[i] # "none"
    /\ mainpc = "returned" => \A i \in Futures : seen[i] \in BehaviourNames

C14_Witness ==
    /\ config.max_workers = 2
    /\ Len(hosts) = 3
    /\ Cardinality(Executing) = 2
    /\ task[3] = "queued"

\* the futures that finished with a ScanResult
Found == { i \in Futures : IsResult(fut[i]) }

\* C15: when every request ends and the threads are scheduled fairly,
\* run_checks eventually returns; when it has returned every task has finished
\* and its outcome has been recorded exactly once, and end_time is stamped
\* only at the return, after the sort.
C15_RunChecksReturns ==
    /\ <>(mainpc = "returned")
    /\ [](mainpc = "returned" =>
            /\ \A i \in Futures : task[i] = "recorded"
            /\ Len(progress) = Len(hosts)
            /\ Len(results) = Cardinality(Found)
            /\ rate_lock = 0
            /\ stats.end_time # 0)
    /\ [](mainpc # "returned" => stats.end_time = 0)

C15_Witness ==
    /\ mainpc = "returned"
    /\ config.rate_limit
    /\ config.max_workers = 2
    /\ Len(hosts) = 2
    /\ Len(results) = 1
    /\ gates = 2

\* the behaviour of the server named n, for host h
BehaviourOf(h, n) == CHOOSE b \in Behaviours(h) : b.name = n

\* the server answers h with a response that passes the filter on a scheme
\* that the config enables
HasPassingResponse(h, n) ==
    \E k \in 1..Len(BuildSchemes) :
        LET a == Answer(BehaviourOf(h, n), BuildSchemes[k])
        IN  a.kind = "resp" /\ FilterLaw(a.status)

\* the entries of the result list for host h
EntriesOf(h) == { k \in 1..Len(results) : results[k].host = h }

\* C16: for a list without duplicates and a server fixed per (host, scheme),
\* the returned list has exactly one entry for each host with a passing
\* response on some scheme and none for any other host; total_checked is the
\* number of hosts and total_found the number of entries.
C16_OneEntryPerLiveHost ==
    mainpc = "returned" =>
        /\ \A i \in Futures :
              Cardinality(EntriesOf(hosts[i])) =
                  IF HasPassingResponse(hosts[i], seen[i]) THEN 1 ELSE 0
        /\ \A k \in 1..Len(results) : \E i \in Futures : results[k].host = hosts[i]
        /\ stats.total_checked = Len(hosts)
        /\ stats.total_found = Len(results)

C16_Witness ==
    /\ mainpc = "returned"
    /\ Len(hosts) = 2
    /\ seen[1] = "plain200"
    /\ seen[2] = "dead"
    /\ Len(results) = 1
    /\ results[1].host = "a.test"
    /\ stats.total_checked = 2
    /\ stats.total_found = 1

\* sum of the values of a dict
RECURSIVE DictSum(_)
DictSum(d) ==
    IF DOMAIN d = {}
    THEN 0
    ELSE LET k == CHOOSE x \in DOMAIN d : TRUE
         IN  d[k] + DictSum([x \in (DOMAIN d) \ {k} |-> d[x]])

\* number of results that satisfy P
CountResults(P(_)) == Cardinality({ k \in 1..Len(results) : P(results[k]) })

\* number of (result, position) pairs whose technology is t
TechOccurrences(t) ==
    Cardinality({ kp \in (1..Len(results)) \X (1..2) :
                    /\ kp[2] <= Len(results[kp[1]].technologies)
                    /\ results[kp[1]].technologies[kp[2]] = t })

AggregateConsistent ==
    /\ stats.total_found = Len(results)
    /\ DictSum(stats.status_distribution) = Len(results)
    /\ \A s \in {200, 403, 404} :
          DictGet(stats.status_distribution, s) =
              LET P(r) == r.status = s IN CountResults(P)
    /\ \A t \in {"Nginx", "PHP", ""} :
          DictGet(stats.tech_distribution, t) = TechOccurrences(t)
    /\ \A c \in {"WordPress", "Cloudflare"} :
          /\ DictGet(stats.cms_distribution, c) =
                 LET P(r) == r.cms = c IN CountResults(P)
          /\ DictGet(stats.waf_distribution, c) =
                 LET P(r) == r.waf = c IN CountResults(P)
    /\ "" \notin DOMAIN stats.cms_distribution
    /\ "" \notin DOMAIN stats.waf_distribution
    /\ DOMAIN stats.status_distribution \subseteq {200, 403}
    /\ DOMAIN stats.tech_distribution \subseteq {"Nginx", "PHP"}
    /\ DOMAIN stats.cms_distribution \subseteq {"WordPress"}
    /\ DOMAIN stats.waf_distribution \subseteq {"Cloudflare"}

\* a None outcome is recorded in this step
RecordsNone ==
    \E i \in Futures :
        task[i] = "finished" /\ task'[i] = "recorded" /\ ~IsResult(fut[i])

\* C17: after every recorded outcome of a run on a fresh checker total_found,
\* len(results) and the sum of status_distribution agree, every distribution
\* counts the results (or technology occurrences) with that value, cms and waf
\* are counted only when non-empty, and a None outcome changes none of them.
C17_AggregateConsistent ==
    /\ []AggregateConsistent
    /\ [][RecordsNone => UNCHANGED << results, stats >>]_vars

C17_Witness ==
    /\ mainpc = "collect"
    /\ Len(results) = 2
    /\ DictGet(stats.tech_distribution, "Nginx") = 2
    /\ DictGet(stats.cms_distribution, "WordPress") = 1
    /\ DOMAIN stats.waf_distribution = {}
    /\ DictGet(stats.status_distribution, 403) = 1
    /\ \E i \in Futures : task[i] = "recorded" /\ ~IsResult(fut[i])

\* ascending by status and, within equal status, ascending by url
SortedByStatusUrl(seq) ==
    \A i \in 1..Len(seq) : \A j \in 1..Len(seq) :
        i < j =>
          \/ seq[i].status < seq[j].status
          \/ seq[i].status = seq[j].status /\ UrlLE(seq[i].url, seq[j].url)

\* C18: the returned list holds the recorded results, each once, and is sorted
\* ascending by status and then by url, whatever the completion order.
C18_SortedPermutation ==
    mainpc = "returned" =>
        /\ Len(results) = Cardinality(Found)
        /\ \A i \in Found : \E k \in 1..Len(results) : results[k] = fut[i]
        /\ SortedByStatusUrl(results)

C18_Witness ==
    /\ mainpc = "returned"
    /\ Len(results) = 3
    /\ seen[1] = "https403"
    /\ seen[2] = "plain200"
    /\ seen[3] = "plain200"
    /\ results[1].host = "b.test"
    /\ results[3].host = "a.test"

\* the recorded results in submission order
RECURSIVE InSubmissionOrder(_)
InSubmissionOrder(n) ==
    IF n = 0 THEN << >>
    ELSE IF IsResult(fut[n])
         THEN Append(InSubmissionOrder(n - 1), fut[n])
         ELSE InSubmissionOrder(n - 1)

\* C19: the returned order does not depend on the completion order: the list
\* equals the one returned by the run that records the same results in
\* submission order, also when two results share the key (status, url).
C19_OrderIndependent ==
    mainpc = "returned" => results = SortResults(InSubmissionOrder(Len(task)))

\* C20: over the progress_callback calls of a run, the checked argument and
\* the found argument never decrease.
C20_ProgressMonotone ==
    \A k \in 1..(Len(progress) - 1) :
        /\ progress[k + 1].checked >= progress[k].checked
        /\ progress[k + 1].found >= progress[k].found

\* the callbacks made so far, one per recorded outcome
Recorded == { i \in Futures : task[i] = "recorded" }

\* C21: progress_callback is called once per host, after the host's outcome
\* is recorded; its first argument is the number of hosts checked so far, its
\* second argument is total_found at that moment, and the last call of a run
\* reports checked = number of input hosts.
C21_ProgressCounts ==
    /\ Len(progress) = Cardinality(Recorded)
    /\ \A k \in 1..Len(progress) : progress[k].checked = k
    /\ Len(progress) >= 1 => progress[Len(progress)].found = stats.total_found
    /\ (mainpc = "returned" /\ Len(hosts) >= 1) =>
          progress[Len(progress)].checked = Len(hosts)

\* the positions of a check_host call that has not raised
CheckHostPositions == { "start", "request", "sleep", "fallback", "done" }

\* C22: whatever the outcomes of the attempts (timeout, SSL error with a
\* failing fallback, connection error, any other exception), check_host does
\* not raise: it goes on to the next attempt or returns a ScanResult or None,
\* and a call whose last request failed returns None.
C22_NeverRaises ==
    /\ pc \in CheckHostPositions
    /\ pc = "done" => (result = None \/ IsResult(result))
    /\ (pc = "done" /\ last.outcome \in ErrorKinds) => result = None
    /\ IsResult(result) => (pc = "done" /\ LastIsResponse)

C22_Witness ==
    /\ pc = "done"
    /\ result = None
    /\ last.fallback
    /\ last.outcome = "other"
    /\ nreq[HTTP] = config.retries + 1
    /\ nfb[HTTPS] = config.retries + 1
    /\ config.retries >= 1

\* the session.get calls made by the call so far, fallback included
RequestsIssued == nreq[HTTP] + nreq[HTTPS] + nfb[HTTP] + nfb[HTTPS]

\* C23: check_host issues at most (retries+1) * (number of enabled schemes)
\* HTTP requests for a host, whatever the outcomes.
C23_RequestBound ==
    RequestsIssued <= (config.retries + 1) * Len(BuildSchemes)

\* C24: every ScanResult returned by check_host, on the SSL fallback path
\* too, has gone through the full enrichment (ip_address, response_time,
\* headers, cookies and the enabled detections).
C24_AlwaysEnriched ==
    IsResult(result) => result.enriched

\* the final step of run_checks applied to a result list and its statistics
FinalStep(res, st, t) ==
    [ results |-> SortResults(res), stats |-> [st EXCEPT !.end_time = t] ]

\* the statistics without the end stamp
Counters(st) ==
    << st.total_checked, st.total_found, st.status_distribution,
       st.tech_distribution, st.cms_distribution, st.waf_distribution >>

\* C26: the final step of run_checks (sort by (status, url), stamp the end)
\* applied a second time without a new record gives the same ordered list
\* and the same total_checked, total_found and distributions.
C26_FinalizeIdempotent ==
    mainpc = "returned" =>
        /\ FinalStep(results, stats, now).results = results
        /\ Counters(FinalStep(results, stats, now).stats) = Counters(stats)

C26_Witness ==
    /\ mainpc = "returned"
    /\ Len(results) = 3
    /\ seen[1] = "shared200"
    /\ seen[2] = "shared200"
    /\ seen[3] = "https403"
    /\ results[3].status = 403
    /\ results[1].host = "b.test"

\* C27: a configuration with only_https and only_http both true is rejected
\* when the checker is constructed: no check_host call is ever made with it.
C27_ConflictRejected ==
    (config.only_https /\ config.only_http) => pc = "start"

\* C28: the rate limiter's lock is held only for the read-modify-write of
\* last_request_time: no worker holds it while sleeping, so a worker waiting
\* out the interval keeps no other worker blocked on the lock.
C28_LockNotHeldAsleep ==
    \A w \in Workers :
        rpc[w] = "sleeping" =>
            /\ rate_lock # w
            /\ \A v \in Workers : rpc[v] # "lock"

\* a step of a pool thread: a task moves on inside check_host
WorkerStep ==
    \E i \in Futures :
        /\ task'[i] # task[i]
        /\ task'[i] \in { "gate", "ingate", "probe", "finished" }

\* the outcomes recorded in this step
NewlyRecorded ==
    { i \in Futures : task[i] = "finished" /\ task'[i] = "recorded" }

\* C29: results and stats are changed only by the caller of run_checks, one
\* recorded outcome at a time, never by a worker thread; no increment is
\* lost: total_found is the number of recorded tasks that returned a result.
C29_SingleWriter ==
    /\ [][ /\ WorkerStep => UNCHANGED << results, stats >>
           /\ (mainpc = "collect" /\ results' # results) =>
                  \/ mainpc' = "returned"
                  \/ /\ Cardinality(NewlyRecorded) = 1
                     /\ \A i \in NewlyRecorded : results' = Append(results, fut[i]) ]_vars
    /\ [](stats.total_found = Cardinality(Found \cap Recorded))
    /\ [](mainpc = "returned" => stats.total_found = Cardinality(Found))

C29_Witness ==
    /\ mainpc = "collect"
    /\ config.max_workers = 2
    /\ Len(hosts) = 3
    /\ stats.total_found = 1
    /\ Cardinality(Found) = 2
    /\ Cardinality(Executing) = 1

\* the list that the caller passed to run_checks
InputList == SubSeq(HostPool, 1, Len(hosts))

\* position of host h in the list seq
IndexIn(seq, h) == CHOOSE k \in 1..Len(seq) : seq[k] = h

\* C30: the hosts are submitted in non-decreasing order of length, hosts of
\* equal length in their input order; the pool starts the tasks in submission
\* order; the hosts dispatched are those of the input list, each once, and
\* the caller's list is only reordered.
C30_SubmittedByLength ==
    mainpc # "idle" =>
        /\ Len(task) = Len(hosts)
        /\ { hosts[k] : k \in 1..Len(hosts) } = { InputList[k] : k \in 1..Len(hosts) }
        /\ \A i \in 1..Len(hosts) : \A j \in 1..Len(hosts) :
              i < j =>
                /\ hosts[i] # hosts[j]
                /\ HostLen(hosts[i]) <= HostLen(hosts[j])
                /\ HostLen(hosts[i]) = HostLen(hosts[j]) =>
                      IndexIn(InputList, hosts[i]) < IndexIn(InputList, hosts[j])
                /\ task[j] # "queued" => task[i] # "queued"

C30_Witness ==
    /\ hosts = << "a.test", "b.test", "cc.test" >>
    /\ task[1] = "finished"
    /\ task[2] = "probe"
    /\ task[3] = "queued"

\* number of times pool entry e was returned
TimesServed(e) == Cardinality({ k \in 1..Len(served) : served[k] = e })

\* C25: in round-robin mode, under every interleaving of the workers, after k
\* completed _get_next_user_agent calls the index is k mod 3 and the calls
\* returned the pool entries in cyclic order, each floor(k/3) or ceil(k/3)
\* times: no update of the index is lost.
C25_RoundRobinNoLostUpdate ==
    (config.ua_mode = "round_robin" /\ \A w \in Workers : ua_pc[w] = "idle") =>
        LET k == Len(served)
        IN  /\ current_user_agent = k % UserAgentPoolSize
            /\ \A i \in 1..k : served[i] = (i - 1) % UserAgentPoolSize
            /\ \A e \in 0..(UserAgentPoolSize - 1) :
                  TimesServed(e) \in { k \div UserAgentPoolSize,
                                      (k + UserAgentPoolSize - 1) \div UserAgentPoolSize }

\* the last request was a verified-path request answered with a status that
\* does not pass the filter
LastNotMatching ==
    /\ LastIsResponse
    /\ ~last.fallback
    /\ ~FilterLaw(last.status)

\* C31: retries on a scheme are reserved for timeouts: after a response whose
\* status does not pass the filter, the next request of the call, if any,
\* goes to another scheme, for every value of retries.
C31_NoRetryAfterResponse ==
    [][ (LastNotMatching /\ NewRequest) => last'.scheme # last.scheme ]_vars

\* C32: after any sequence of run_checks calls on one checker, and at every
\* intermediate state of a run, total_found <= total_checked and
\* len(results) = total_found, so success_rate never exceeds 100%.
C32_FoundWithinChecked ==
    /\ stats.total_found <= stats.total_checked
    /\ Len(results) = stats.total_found

\* a call is reading or updating the round-robin index
InsideRoundRobin == \E w \in Workers : ua_pc[w] # "idle"

\* C33: with custom_user_agent set every _get_next_user_agent call returns
\* that value; the custom path and the random path neither read nor change
\* current_user_agent; only the round-robin path advances it.
C33_OnlyRoundRobinMovesIndex ==
    /\ config.ua_mode = "custom" =>
          \A k \in 1..Len(served) : served[k] = "custom_user_agent"
    /\ config.ua_mode = "random" =>
          \A k \in 1..Len(served) : served[k] = "random"
    /\ config.ua_mode # "round_robin" =>
          /\ ~InsideRoundRobin
          /\ current_user_agent = 0
          /\ \A w \in Workers : agent[w] = 0 /\ ua_index[w] = 0
    /\ (config.ua_mode = "round_robin" /\ Len(served) = 1) =>
          current_user_agent = 1

C33_Witness ==
    /\ config.ua_mode = "custom"
    /\ ua_calls[1] = MaxCalls
    /\ ua_calls[2] >= 1
    /\ Len(served) >= 3
    /\ current_user_agent = 0

\* indices of the user agent pool
PoolIndices == 0..(UserAgentPoolSize - 1)

\* C34: under every interleaving of unsynchronized _get_next_user_agent
\* calls current_user_agent stays within 0..len(user_agents)-1, so that
\* indexing the pool is never out of range, also when updates are lost.
C34_IndexInRange ==
    /\ current_user_agent \in PoolIndices
    /\ \A w \in Workers : agent[w] \in PoolIndices /\ ua_index[w] \in PoolIndices
    /\ config.ua_mode = "round_robin" =>
          \A k \in 1..Len(served) : served[k] \in PoolIndices

\* four calls of which one update was lost: the index has wrapped around to 0
C34_Witness ==
    /\ config.ua_mode = "round_robin"
    /\ ~InsideRoundRobin
    /\ Len(served) = 4
    /\ current_user_agent = 0

====
